---------------------------- MODULE Spec2Model ----------------------------
(***************************************************************************)
(* Operator scripts of the iris SageMaker pipeline:                        *)
(*   scripts/trigger_training.py  (submit, wait, locate metrics, record)   *)
(*   scripts/deploy_endpoint.py   (create / update / guarded abort)        *)
(*   scripts/test_endpoint.py     (single, batch and negative probes)      *)
(*   scripts/cleanup.py           (endpoint and model sweeps, dry run)     *)
(* The platform (SageMaker, S3, the endpoint) is the environment: every    *)
(* answer it gives is drawn nondeterministically when the script asks.     *)
(* Floats are scaled by 100 (accuracy 0.93 is 93).                         *)
(***************************************************************************)
EXTENDS Integers, Sequences, FiniteSets

VARIABLES
    \* ---- trigger_training.py ----
    pc,              \* position of trigger_training.main
    args_wait,       \* --wait
    job_name,        \* name generated by create_training_job
    polls,           \* results of describe_training_job so far, in order
    success,         \* first component of wait_for_training's result
    model_artifacts, \* second component of wait_for_training's result
    s3calls,         \* S3 requests issued by get_metrics_from_s3, in order
    direct_outcome,  \* what s3.get_object answered
    archive_outcome, \* what the archive tier met
    tmp_created,     \* NamedTemporaryFile(delete=False) made its file
    tmp_exists,      \* that file is still on disk
    metrics,         \* value returned by get_metrics_from_s3 / kept by main
    job_info_file,   \* training_job_info.json: <<>> or <<record>>
    exit_code,       \* process exit status of trigger_training.py
    \* ---- deploy_endpoint.py ----
    dpc,             \* position of deploy_endpoint.main
    d_update,        \* --update-endpoint
    ep_present,      \* the platform has an endpoint of the given name
    describe_answer, \* what describe_endpoint answered to check_endpoint_exists
    d_exists,        \* first component of check_endpoint_exists' result
    d_model,         \* the SKLearnModel object built by create_model
    d_path,          \* branch of main taken: none / create / update / abort
    d_config,        \* endpoint_config_name generated by update_existing_endpoint
    platform_models, \* model names registered with the platform
    mutations,       \* mutating platform calls issued, in order
    update_polls,    \* results of describe_endpoint in the update loop
    endpoint_info_file, \* endpoint_info.json: <<>> or <<record>>
    d_exit,          \* process exit status of deploy_endpoint.py
    d_error,         \* message of the exception update_existing_endpoint raised
    \* ---- test_endpoint.py ----
    ppc,             \* position of test_endpoint.main
    single_resps,    \* the endpoint's answers to the three single requests
    single_tally,    \* <<passed, failed, requests sent>> of the single check
    batch_resp,      \* the endpoint's answer to the batch request
    batch_tally,     \* <<passed, failed>> of the batch check
    neg_resps,       \* the endpoint's answers to the malformed payloads
    p_exit,          \* process exit status of test_endpoint.py
    \* ---- cleanup.py ----
    cpc,             \* position of cleanup.main
    c_endpoint_name, \* --endpoint-name, or None
    c_all,           \* --delete-all-endpoints
    c_old,           \* --delete-old-models
    c_dry,           \* --dry-run
    c_days,          \* --days
    ep_listing,      \* response['Endpoints'] of list_endpoints
    iris_endpoints,  \* the endpoint sweep's candidates
    ep_idx,          \* position of the endpoint sweep's delete loop
    model_listing,   \* response['Models'] of list_models
    old_models,      \* the model sweep's candidates
    model_idx,       \* position of the model sweep's delete loop
    deletes,         \* delete calls issued to the platform, in order
    attempts,        \* resources whose deletion was entered, in order
    c_exit           \* process exit status of cleanup.py

train_vars == <<pc, args_wait, job_name, polls, success, model_artifacts,
                s3calls, direct_outcome, archive_outcome, tmp_created,
                tmp_exists, metrics, job_info_file, exit_code>>

deploy_vars == <<dpc, d_update, ep_present, describe_answer, d_exists, d_model,
                 d_path, d_config, platform_models, mutations, update_polls,
                 endpoint_info_file, d_exit, d_error>>

probe_vars == <<ppc, single_resps, single_tally, batch_resp, batch_tally,
                neg_resps, p_exit>>

cleanup_vars == <<cpc, c_endpoint_name, c_all, c_old, c_dry, c_days, ep_listing,
                  iris_endpoints, ep_idx, model_listing, old_models, model_idx,
                  deletes, attempts, c_exit>>

vars == <<train_vars, deploy_vars, probe_vars, cleanup_vars>>

\* ------------------------------------------------------------------ bounds
MaxPolls == 4
MaxClock == 2
MaxUpdatePolls == 3
MaxPreds == 3
MaxListedEndpoints == 3
MaxListedModels == 2

\* ------------------------------------------------------------------ values
\* Python's None (also what json.loads gives for the document `null`).
None == [none |-> TRUE]

Timestamps == 1..MaxClock

\* TrainingJobStatus values of describe_training_job.
JobStatuses == {"Pending", "InProgress", "Stopping", "Completed", "Failed", "Stopped"}

\* One poll: a status, or the query itself raising.
PollResults == JobStatuses \cup {"QueryError"}

AccuracyValues == {0, 93}

\* metrics.json documents as train.py writes them, or the JSON document null.
Docs == {[accuracy |-> a, f1_score |-> a] : a \in AccuracyValues} \cup {None}

NotAsked == [kind |-> "not_asked", doc |-> None]

\* s3.get_object + read + json.loads of <prefix>/metrics.json.
DirectOutcomes ==
    {[kind |-> "ok", doc |-> d] : d \in Docs}
    \cup {[kind |-> k, doc |-> None] : k \in {"NoSuchKey", "ClientError", "bad_json"}}

\* NamedTemporaryFile + s3.download_file of <prefix>/output.tar.gz.
DownloadOutcomes == {"mktemp_error", "download_error", "downloaded"}

\* tarfile.open + extractfile('metrics.json') + json.loads.
ExtractOutcomes ==
    {[kind |-> "member", doc |-> d] : d \in Docs}
    \cup {[kind |-> k, doc |-> None] :
            k \in {"open_error", "KeyError", "not_a_file", "bad_json"}}

\* ------------------------------------------------------- trigger_training.py
JobName(ts) == [prefix |-> "iris-training", ts |-> ts]

ArtifactsOf(job) == [s3 |-> "model-artifacts", job |-> job, file |-> "model.tar.gz"]

IsTerminalMutant(status) == status \in {"Completed", "Failed"}
\* line 82: if status in ['Completed', 'Failed', 'Stopped']: break
IsTerminal(status) == status \in {"Completed", "Failed", "Stopped"}

PollErrorNextMutant == "raised"
\* lines 86-89: except Exception: print, sleep, continue
PollErrorNext == "polling"

\* lines 91-100: the result of wait_for_training for a terminal status
WaitResult(status, job) ==
    IF status = "Completed" THEN <<TRUE, ArtifactsOf(job)>> ELSE <<FALSE, None>>

\* line 164
SentinelNotFound == [accuracy |-> 0, note |-> "Metrics file not found in S3 or output.tar.gz"]

\* line 170: {'accuracy': 0.0, 'error': str(e)}
SentinelError(e) == [accuracy |-> 0, error |-> e]

SentinelNoneMutant == None
\* line 219
SentinelNone == [accuracy |-> 0, error |-> "Failed to retrieve metrics"]

DirectFallsThroughMutant(d) == d.kind # "ok"
\* lines 129-130: only NoSuchKey is caught by the inner handler
DirectFallsThrough(d) == d.kind = "NoSuchKey"

NotFoundResultMutant == None
\* lines 163-164: both tiers tried, no document
NotFoundResult == SentinelNotFound

FailedJobInfoMutant(job) ==
    [job_name |-> job, model_artifacts |-> None,
     metrics |-> SentinelNone, status |-> "failed"]
\* lines 203-209 (the timestamp field is left out)
FailedJobInfo(job) ==
    [job_name |-> job, model_artifacts |-> None, metrics |-> None, status |-> "failed"]

\* lines 229-235
StartedJobInfo(job) ==
    [job_name |-> job, model_artifacts |-> None, metrics |-> None, status |-> "started"]

\* lines 175-180: save_job_info writes no status key
SavedJobInfo(job, artifacts, m) ==
    [job_name |-> job, model_artifacts |-> artifacts, metrics |-> m]

\* the script before main runs; waits are the values --wait may take
TrainStart(waits) ==
    /\ pc = "create"
    /\ args_wait \in waits
    /\ job_name = None
    /\ polls = <<>>
    /\ success = FALSE
    /\ model_artifacts = None
    /\ s3calls = <<>>
    /\ direct_outcome = NotAsked
    /\ archive_outcome = NotAsked
    /\ tmp_created = FALSE
    /\ tmp_exists = FALSE
    /\ metrics = None
    /\ job_info_file = <<>>
    /\ exit_code = -1

\* main line 193, create_training_job lines 26-66
CreateTrainingJob ==
    /\ pc = "create"
    /\ \E ts \in Timestamps : job_name' = JobName(ts)
    /\ pc' = IF args_wait THEN "polling" ELSE "nowait"
    /\ UNCHANGED <<args_wait, polls, success, model_artifacts, s3calls,
                   direct_outcome, archive_outcome, tmp_created, tmp_exists,
                   metrics, job_info_file, exit_code>>
    /\ UNCHANGED <<deploy_vars, probe_vars, cleanup_vars>>

\* main lines 226-238: no --wait
MainNoWait ==
    /\ pc = "nowait"
    /\ job_info_file' = <<StartedJobInfo(job_name)>>
    /\ exit_code' = 0
    /\ pc' = "exited"
    /\ UNCHANGED <<args_wait, job_name, polls, success, model_artifacts, s3calls,
                   direct_outcome, archive_outcome, tmp_created, tmp_exists, metrics>>
    /\ UNCHANGED <<deploy_vars, probe_vars, cleanup_vars>>

\* wait_for_training lines 75-100: one iteration of the loop, and the return
\* when the iteration breaks out of it
Poll ==
    /\ pc = "polling"
    /\ Len(polls) < MaxPolls
    /\ \E r \in PollResults :
        /\ polls' = Append(polls, r)
        /\ IF r = "QueryError"
             THEN /\ pc' = PollErrorNext
                  /\ UNCHANGED <<success, model_artifacts>>
             ELSE IF IsTerminal(r)
                    THEN /\ pc' = "waited"
                         /\ success' = WaitResult(r, job_name)[1]
                         /\ model_artifacts' = WaitResult(r, job_name)[2]
                    ELSE /\ pc' = "polling"
                         /\ UNCHANGED <<success, model_artifacts>>
    /\ UNCHANGED <<args_wait, job_name, s3calls, direct_outcome, archive_outcome,
                   tmp_created, tmp_exists, metrics, job_info_file, exit_code>>
    /\ UNCHANGED <<deploy_vars, probe_vars, cleanup_vars>>

\* main lines 200-212: the job did not complete
MainFailed ==
    /\ pc = "waited"
    /\ ~success
    /\ job_info_file' = <<FailedJobInfo(job_name)>>
    /\ exit_code' = 1
    /\ pc' = "exited"
    /\ UNCHANGED <<args_wait, job_name, polls, success, model_artifacts, s3calls,
                   direct_outcome, archive_outcome, tmp_created, tmp_exists, metrics>>
    /\ UNCHANGED <<deploy_vars, probe_vars, cleanup_vars>>

\* main line 215, get_metrics_from_s3 lines 105-131: tier 1
TryDirect ==
    /\ pc = "waited"
    /\ success
    /\ s3calls' = Append(s3calls, "get_object")
    /\ \E d \in DirectOutcomes :
        /\ direct_outcome' = d
        /\ IF d.kind = "ok"
             THEN metrics' = d.doc /\ pc' = "located"
             ELSE IF DirectFallsThrough(d)
                    THEN metrics' = metrics /\ pc' = "download"
                    ELSE metrics' = SentinelError(d.kind) /\ pc' = "located"
    /\ UNCHANGED <<args_wait, job_name, polls, success, model_artifacts,
                   archive_outcome, tmp_created, tmp_exists, job_info_file, exit_code>>
    /\ UNCHANGED <<deploy_vars, probe_vars, cleanup_vars>>

\* get_metrics_from_s3 lines 133-140: temporary file and download
DownloadArchive ==
    /\ pc = "download"
    /\ \E o \in DownloadOutcomes :
        /\ archive_outcome' = [kind |-> o, doc |-> None]
        /\ tmp_created' = (o # "mktemp_error")
        /\ tmp_exists' = (o # "mktemp_error")
        /\ s3calls' = IF o = "mktemp_error" THEN s3calls
                      ELSE Append(s3calls, "download_file")
        /\ IF o = "downloaded"
             THEN metrics' = metrics /\ pc' = "extract"
             ELSE metrics' = SentinelError(o) /\ pc' = "located"
    /\ UNCHANGED <<args_wait, job_name, polls, success, model_artifacts,
                   direct_outcome, job_info_file, exit_code>>
    /\ UNCHANGED <<deploy_vars, probe_vars, cleanup_vars>>

\* get_metrics_from_s3 lines 142-170: open the archive, extract, clean up
ExtractMetrics ==
    /\ pc = "extract"
    /\ \E o \in ExtractOutcomes :
        /\ archive_outcome' = o
        /\ CASE o.kind = "member" ->
                  \* lines 151-156
                  tmp_exists' = FALSE /\ metrics' = o.doc
             [] o.kind \in {"KeyError", "not_a_file"} ->
                  \* lines 157-164
                  tmp_exists' = FALSE /\ metrics' = NotFoundResult
             [] OTHER ->
                  \* lines 166-170: tarfile.open or json.loads raised
                  tmp_exists' = tmp_exists /\ metrics' = SentinelError(o.kind)
    /\ pc' = "located"
    /\ UNCHANGED <<args_wait, job_name, polls, success, model_artifacts, s3calls,
                   direct_outcome, tmp_created, job_info_file, exit_code>>
    /\ UNCHANGED <<deploy_vars, probe_vars, cleanup_vars>>

\* main lines 217-225: None check, save_job_info, exit(0)
MainSave ==
    /\ pc = "located"
    /\ metrics' = IF metrics = None THEN SentinelNone ELSE metrics
    /\ job_info_file' = <<SavedJobInfo(job_name, model_artifacts, metrics')>>
    /\ exit_code' = 0
    /\ pc' = "exited"
    /\ UNCHANGED <<args_wait, job_name, polls, success, model_artifacts, s3calls,
                   direct_outcome, archive_outcome, tmp_created, tmp_exists>>
    /\ UNCHANGED <<deploy_vars, probe_vars, cleanup_vars>>

\* ------------------------------------------------------- deploy_endpoint.py
\* EndpointStatus values of describe_endpoint.
EndpointStatuses == {"Creating", "Updating", "InService", "Failed", "OutOfService"}

\* What describe_endpoint can answer in check_endpoint_exists.  "NotFound" and
\* "ClientError" are both botocore ClientError (the first is the validation
\* error for a missing endpoint, the second any other service error such as
\* throttling or access denied); "ConnectionError" is not a ClientError.
DescribeAnswers(present) ==
    IF present THEN {"found", "ClientError", "ConnectionError"}
    ELSE {"NotFound", "ClientError", "ConnectionError"}

\* line 30: except client.exceptions.ClientError: return False, None
CaughtAsAbsent(ans) == ans \in {"NotFound", "ClientError"}

\* line 38
ModelName(ts) == [prefix |-> "iris-model", ts |-> ts]

\* line 77
ConfigName(ts) == [prefix |-> "iris-endpoint-config", ts |-> ts]

MainBranchMutant(exists, update) == IF exists THEN "update" ELSE "create"
\* lines 142-149: the decision table of main
MainBranch(exists, update) ==
    IF exists /\ update THEN "update"
    ELSE IF exists /\ ~update THEN "abort"
    ELSE "create"

\* What model.deploy(wait=True) can end in.  The SDK registers the model,
\* creates the endpoint configuration and the endpoint, then waits; creating
\* an endpoint whose name is taken is refused by the platform.
DeployOutcomes(present) ==
    {"create_model_error", "create_config_error", "create_endpoint_error"}
    \cup (IF present THEN {} ELSE {"InService", "Failed"})

\* FailureReason of a describe_endpoint response, or no such key
FailureReasons == {"absent", "CapacityError"}

\* lines 113-114: response.get('FailureReason', 'Unknown') in the message
UpdateFailedMessage(reason) ==
    [text |-> "Endpoint update failed",
     reason |-> IF reason = "absent" THEN "Unknown" ELSE reason]

Call(name, arg) == [call |-> name, arg |-> arg]

\* the mutating calls model.deploy has issued when it ends in outcome o
DeployCalls(o, model, endpoint) ==
    <<Call("create_model", model)>>
    \o (IF o = "create_model_error" THEN <<>>
        ELSE <<Call("create_endpoint_config", model)>>)
    \o (IF o \in {"create_model_error", "create_config_error"} THEN <<>>
        ELSE <<Call("create_endpoint", endpoint)>>)

EndpointName == "iris-endpoint"

\* lines 121-125 (the timestamp field is left out)
EndpointInfo == [endpoint_name |-> EndpointName, instance_type |-> "ml.t2.medium"]

\* the script before main runs; updates are the values --update-endpoint may
\* take, presents whether the platform may hold the endpoint
DeployStart(updates, presents) ==
    /\ dpc = "check"
    /\ d_update \in updates
    /\ ep_present \in presents
    /\ describe_answer = "not_asked"
    /\ d_exists = FALSE
    /\ d_model = None
    /\ d_path = "none"
    /\ d_config = None
    /\ platform_models = {}
    /\ mutations = <<>>
    /\ update_polls = <<>>
    /\ endpoint_info_file = <<>>
    /\ d_exit = -1
    /\ d_error = None

\* main line 136, check_endpoint_exists lines 23-31
CheckEndpointExists ==
    /\ dpc = "check"
    /\ \E ans \in DescribeAnswers(ep_present) :
        /\ describe_answer' = ans
        /\ IF ans = "found"
             THEN d_exists' = TRUE /\ dpc' = "model" /\ d_exit' = d_exit
             ELSE IF CaughtAsAbsent(ans)
                    THEN d_exists' = FALSE /\ dpc' = "model" /\ d_exit' = d_exit
                    \* any other exception leaves main: traceback, status 1
                    ELSE d_exists' = d_exists /\ dpc' = "exited" /\ d_exit' = 1
    /\ UNCHANGED <<d_update, ep_present, d_model, d_path, d_config, platform_models,
                   mutations, update_polls, endpoint_info_file>>
    /\ UNCHANGED <<d_error, train_vars, probe_vars, cleanup_vars>>

\* main line 139, create_model lines 33-53: builds the local SKLearnModel
\* object only; nothing is sent to the platform
CreateModel ==
    /\ dpc = "model"
    /\ \E ts \in Timestamps : d_model' = ModelName(ts)
    /\ dpc' = "branch"
    /\ UNCHANGED <<d_update, ep_present, describe_answer, d_exists, d_path, d_config,
                   platform_models, mutations, update_polls, endpoint_info_file, d_exit>>
    /\ UNCHANGED <<d_error, train_vars, probe_vars, cleanup_vars>>

\* main lines 145-147
GuardAbort ==
    /\ dpc = "branch"
    /\ MainBranch(d_exists, d_update) = "abort"
    /\ d_path' = "abort"
    /\ d_exit' = 1
    /\ dpc' = "exited"
    /\ UNCHANGED <<d_update, ep_present, describe_answer, d_exists, d_model, d_config,
                   platform_models, mutations, update_polls, endpoint_info_file>>
    /\ UNCHANGED <<d_error, train_vars, probe_vars, cleanup_vars>>

\* main line 149, deploy_new_endpoint lines 55-68
DeployNewEndpoint ==
    /\ dpc = "branch"
    /\ MainBranch(d_exists, d_update) = "create"
    /\ d_path' = "create"
    /\ \E o \in DeployOutcomes(ep_present) :
        /\ mutations' = mutations \o DeployCalls(o, d_model, EndpointName)
        /\ platform_models' = IF o = "create_model_error" THEN platform_models
                              ELSE platform_models \cup {d_model}
        /\ IF o = "InService"
             THEN dpc' = "save" /\ d_exit' = d_exit
             ELSE dpc' = "exited" /\ d_exit' = 1
    /\ UNCHANGED <<d_update, ep_present, describe_answer, d_exists, d_model, d_config,
                   update_polls, endpoint_info_file>>
    /\ UNCHANGED <<d_error, train_vars, probe_vars, cleanup_vars>>

\* main line 144, update_existing_endpoint lines 70-99: new endpoint
\* configuration, then update_endpoint.  The platform's answer to each call is
\* the environment's.
UpdateExistingEndpoint ==
    /\ dpc = "branch"
    /\ MainBranch(d_exists, d_update) = "update"
    /\ d_path' = "update"
    /\ \E ts \in Timestamps, o \in {"create_config_error", "update_error", "accepted"} :
        /\ ts >= d_model.ts
        /\ d_config' = ConfigName(ts)
        /\ mutations' = mutations
              \o <<[call |-> "create_endpoint_config", arg |-> ConfigName(ts),
                    model |-> d_model,
                    model_registered |-> d_model \in platform_models]>>
              \o (IF o = "create_config_error" THEN <<>>
                  ELSE <<[call |-> "update_endpoint", arg |-> EndpointName,
                          config |-> ConfigName(ts)]>>)
        /\ IF o = "accepted"
             THEN dpc' = "update_poll" /\ d_exit' = d_exit
             ELSE dpc' = "exited" /\ d_exit' = 1
    /\ UNCHANGED <<d_update, ep_present, describe_answer, d_exists, d_model,
                   platform_models, update_polls, endpoint_info_file>>
    /\ UNCHANGED <<d_error, train_vars, probe_vars, cleanup_vars>>

\* the wait loop leaving on any status that is not Creating or Updating
UpdatePollMutant ==
    /\ dpc = "update_poll"
    /\ Len(update_polls) < MaxUpdatePolls
    /\ \E r \in EndpointStatuses \cup {"QueryError"} :
        /\ update_polls' = Append(update_polls, r)
        /\ IF r \notin {"Creating", "Updating", "QueryError"}
             THEN dpc' = "save" /\ d_exit' = d_exit
             ELSE IF r = "QueryError"
                    THEN dpc' = "exited" /\ d_exit' = 1
                    ELSE dpc' = "update_poll" /\ d_exit' = d_exit
    /\ UNCHANGED <<d_update, ep_present, describe_answer, d_exists, d_model, d_path,
                   d_config, platform_models, mutations, endpoint_info_file, d_error>>
    /\ UNCHANGED <<train_vars, probe_vars, cleanup_vars>>

\* update_existing_endpoint lines 104-116: one iteration of the wait loop
UpdatePoll ==
    /\ dpc = "update_poll"
    /\ Len(update_polls) < MaxUpdatePolls
    /\ \E r \in EndpointStatuses \cup {"QueryError"} :
        /\ update_polls' = Append(update_polls, r)
        /\ IF r = "InService"
             THEN dpc' = "save" /\ d_exit' = d_exit /\ d_error' = d_error
             ELSE IF r = "Failed"
                    \* lines 113-114: raise with the response's FailureReason
                    THEN /\ dpc' = "exited" /\ d_exit' = 1
                         /\ \E reason \in FailureReasons :
                               d_error' = UpdateFailedMessage(reason)
                    ELSE IF r = "QueryError"
                           \* a failed describe is not caught: it leaves main
                           THEN dpc' = "exited" /\ d_exit' = 1 /\ d_error' = d_error
                           ELSE dpc' = "update_poll" /\ d_exit' = d_exit
                                /\ d_error' = d_error
    /\ UNCHANGED <<d_update, ep_present, describe_answer, d_exists, d_model, d_path,
                   d_config, platform_models, mutations, endpoint_info_file>>
    /\ UNCHANGED <<train_vars, probe_vars, cleanup_vars>>

\* main lines 151-154, save_endpoint_info lines 118-130
SaveEndpointInfo ==
    /\ dpc = "save"
    /\ endpoint_info_file' = <<EndpointInfo>>
    /\ d_exit' = 0
    /\ dpc' = "exited"
    /\ UNCHANGED <<d_update, ep_present, describe_answer, d_exists, d_model, d_path,
                   d_config, platform_models, mutations, update_polls>>
    /\ UNCHANGED <<d_error, train_vars, probe_vars, cleanup_vars>>

\* --------------------------------------------------------- test_endpoint.py
Labels == {"setosa", "versicolor", "virginica"}

\* get_test_data lines 20-33: the expected label of each sample, in order
Expected == <<"setosa", "versicolor", "virginica">>

\* invoke_endpoint for one sample: a result (with or without the
\* 'probabilities' key), or an exception
SingleResponses ==
    {[kind |-> "result", prediction |-> l, probabilities |-> b] :
        l \in Labels, b \in BOOLEAN}
    \cup {[kind |-> "error", prediction |-> "", probabilities |-> FALSE]}

\* An entry of result['predictions']: a label, or an entry with no
\* 'prediction' key
BatchEntries == Labels \cup {"malformed"}

\* invoke_endpoint for the batch: an exception (or no 'predictions' key), or a
\* list of entries of any length
BatchResponses ==
    {[kind |-> "error", predictions |-> <<>>]}
    \cup {[kind |-> "result", predictions |-> ps] :
            ps \in UNION {[1..n -> BatchEntries] : n \in 0..MaxPreds}}

\* invoke_endpoint for a malformed payload
NegativeResponses == {"accepted", "error"}

\* test_error_handling lines 137-141
InvalidPayloads == <<"wrong_key", "wrong_feature_count", "wrong_type">>

Min(a, b) == IF a < b THEN a ELSE b

\* lines 71-85: the verdict on one sample
SampleVerdict(resp, expected) ==
    IF resp.kind = "error" THEN "failed"            \* lines 83-85
    ELSE IF ~resp.probabilities THEN "failed"       \* KeyError at line 75
    ELSE IF resp.prediction = expected THEN "passed" \* lines 77-79
    ELSE "failed"                                   \* lines 80-82

\* lines 63-85: the loop from sample i on; tally is <<passed, failed, sent>>
RECURSIVE SingleLoop(_, _, _)
SingleLoop(resps, i, tally) ==
    IF i > Len(Expected) THEN tally
    ELSE LET v == SampleVerdict(resps[i], Expected[i]) IN
         SingleLoop(resps, i + 1,
                    <<tally[1] + (IF v = "passed" THEN 1 ELSE 0),
                      tally[2] + (IF v = "failed" THEN 1 ELSE 0),
                      tally[3] + 1>>)

\* the loop with the try around it instead of inside it
RECURSIVE SingleLoopAborting(_, _, _)
SingleLoopAborting(resps, i, tally) ==
    IF i > Len(Expected) THEN tally
    ELSE LET v == SampleVerdict(resps[i], Expected[i]) IN
         IF resps[i].kind = "error" \/ ~resps[i].probabilities
           THEN <<tally[1], tally[2] + 1, tally[3] + 1>>
           ELSE SingleLoopAborting(resps, i + 1,
                    <<tally[1] + (IF v = "passed" THEN 1 ELSE 0),
                      tally[2] + (IF v = "failed" THEN 1 ELSE 0),
                      tally[3] + 1>>)

TestSinglePredictionMutant(resps) == SingleLoopAborting(resps, 1, <<0, 0, 0>>)
\* test_single_prediction lines 51-87; the third component counts the
\* requests sent
TestSinglePrediction(resps) == SingleLoop(resps, 1, <<0, 0, 0>>)

\* lines 113-123: zip(predictions, test_samples) from position i on; an entry
\* without 'prediction' raises at line 116 and lands in lines 126-128
RECURSIVE BatchLoop(_, _, _)
BatchLoop(preds, i, tally) ==
    IF i > Min(Len(preds), Len(Expected)) THEN tally
    ELSE IF preds[i] = "malformed" THEN <<0, Len(Expected)>>
    ELSE BatchLoop(preds, i + 1,
                   IF preds[i] = Expected[i]
                     THEN <<tally[1] + 1, tally[2]>>
                     ELSE <<tally[1], tally[2] + 1>>)

\* the batch check with a request error charged to one position only
TestBatchPredictionMutant(resp) ==
    IF resp.kind = "error" THEN <<0, 1>>
    ELSE BatchLoop(resp.predictions, 1, <<0, 0>>)

\* test_batch_prediction lines 89-128: <<passed, failed>>
TestBatchPrediction(resp) ==
    IF resp.kind = "error" THEN <<0, Len(Expected)>>
    ELSE BatchLoop(resp.predictions, 1, <<0, 0>>)

\* main lines 173-183
ExitStatus(total_failed) == IF total_failed > 0 THEN 1 ELSE 0

ProbeStart ==
    /\ ppc = "single"
    /\ single_resps = <<>>
    /\ single_tally = <<0, 0, 0>>
    /\ batch_resp = [kind |-> "not_asked", predictions |-> <<>>]
    /\ batch_tally = <<0, 0>>
    /\ neg_resps = <<>>
    /\ p_exit = -1

\* main line 158
ProbeSingle ==
    /\ ppc = "single"
    /\ \E resps \in [1..Len(Expected) -> SingleResponses] :
        /\ single_resps' = resps
        /\ single_tally' = TestSinglePrediction(resps)
    /\ ppc' = "batch"
    /\ UNCHANGED <<batch_resp, batch_tally, neg_resps, p_exit>>
    /\ UNCHANGED <<train_vars, deploy_vars, cleanup_vars>>

\* main line 161
ProbeBatch ==
    /\ ppc = "batch"
    /\ \E resp \in BatchResponses :
        /\ batch_resp' = resp
        /\ batch_tally' = TestBatchPrediction(resp)
    /\ ppc' = "negative"
    /\ UNCHANGED <<single_resps, single_tally, neg_resps, p_exit>>
    /\ UNCHANGED <<train_vars, deploy_vars, cleanup_vars>>

\* main line 164, test_error_handling lines 130-149: three malformed
\* payloads; every outcome is only printed
ProbeNegative ==
    /\ ppc = "negative"
    /\ \E resps \in [DOMAIN InvalidPayloads -> NegativeResponses] : neg_resps' = resps
    /\ ppc' = "summary"
    /\ UNCHANGED <<single_resps, single_tally, batch_resp, batch_tally, p_exit>>
    /\ UNCHANGED <<train_vars, deploy_vars, cleanup_vars>>

NegAccepted == Cardinality({i \in DOMAIN neg_resps : neg_resps[i] = "accepted"})

\* the summary with the negative check's failures added to total_failed
ProbeSummaryMutant ==
    /\ ppc = "summary"
    /\ p_exit' = ExitStatus(single_tally[2] + batch_tally[2] + NegAccepted)
    /\ ppc' = "exited"
    /\ UNCHANGED <<single_resps, single_tally, batch_resp, batch_tally, neg_resps>>
    /\ UNCHANGED <<train_vars, deploy_vars, cleanup_vars>>

\* main lines 166-183
ProbeSummary ==
    /\ ppc = "summary"
    /\ p_exit' = ExitStatus(single_tally[2] + batch_tally[2])
    /\ ppc' = "exited"
    /\ UNCHANGED <<single_resps, single_tally, batch_resp, batch_tally, neg_resps>>
    /\ UNCHANGED <<train_vars, deploy_vars, cleanup_vars>>

\* ------------------------------------------------------------- cleanup.py
\* Resource names are sequences of characters, so that lower-casing and the
\* substring test are computed on them.
UpperLetters == <<"A", "B", "C", "D", "E", "F", "G", "H", "I", "J", "K", "L", "M",
                  "N", "O", "P", "Q", "R", "S", "T", "U", "V", "W", "X", "Y", "Z">>

LowerLetters == <<"a", "b", "c", "d", "e", "f", "g", "h", "i", "j", "k", "l", "m",
                  "n", "o", "p", "q", "r", "s", "t", "u", "v", "w", "x", "y", "z">>

\* str.lower() on one character
LowerChar(c) ==
    IF \E k \in 1..Len(UpperLetters) : UpperLetters[k] = c
    THEN LowerLetters[CHOOSE k \in 1..Len(UpperLetters) : UpperLetters[k] = c]
    ELSE c

\* str.lower()
Lower(s) == [k \in 1..Len(s) |-> LowerChar(s[k])]

\* Python's `sub in s` on strings
Contains(sub, s) ==
    \E k \in 0..(Len(s) - Len(sub)) : \A j \in 1..Len(sub) : s[k + j] = sub[j]

\* the literal 'iris' of lines 60 and 92
Convention == <<"i", "r", "i", "s">>

\* 'iris' in name (no lower-casing)
MatchesConventionMutant(name) == Contains(Convention, name)

\* 'iris' in name.lower()
MatchesConvention(name) == Contains(Convention, Lower(name))

NameIrisEp == <<"i", "r", "i", "s", "-", "e", "p">>
NameMyIris == <<"M", "y", "I", "R", "i", "s">>
NameNearMiss == <<"i", "r", "i", "-", "s">>
NameProd == <<"p", "r", "o", "d">>

\* names the platform may list, in listing order
NamePool == <<NameIrisEp, NameMyIris, NameNearMiss, NameProd>>

PoolSet == {NamePool[k] : k \in 1..Len(NamePool)}

Pick(S) == SelectSeq(NamePool, LAMBDA n : n \in S)

\* --days default
DefaultDays == 7

DayThresholds == {DefaultDays}

\* age of a model in days, relative to the threshold: younger, exactly at, older
Ages(days) == {days - 1, days, days + 1}

\* response['Endpoints'] of list_endpoints, or the call raising
ListEndpointsAnswers ==
    {[kind |-> "error", items |-> <<>>]} \cup
    {[kind |-> "ok", items |-> [k \in 1..Len(P) |-> [EndpointName |-> P[k]]]] :
        P \in {Pick(S) : S \in {T \in SUBSET PoolSet : Cardinality(T) <= MaxListedEndpoints}}}

\* response['Models'] of list_models, or the call raising
ListModelsAnswers(days) ==
    {[kind |-> "error", items |-> <<>>]} \cup
    UNION {{[kind |-> "ok",
             items |-> [k \in 1..Len(Pick(S)) |->
                          [ModelName |-> Pick(S)[k], age |-> a[Pick(S)[k]]]]] :
               a \in [S -> Ages(days)]} :
           S \in {T \in SUBSET PoolSet : Cardinality(T) <= MaxListedModels}}

\* response['EndpointConfigName'] of describe_endpoint
ConfigOf(endpoint_name) == [config_of |-> endpoint_name]

\* how far delete_endpoint gets: each platform call may raise a ClientError,
\* raise another exception (connection, timeout), or return
DeleteEndpointOutcomes(dry_run) ==
    {"describe_client_error", "describe_other_error"} \cup
    (IF dry_run THEN {"reported"}
     ELSE {"delete_client_error", "delete_other_error",
           "config_client_error", "config_other_error", "deleted"})

DeleteCall(origin, name, arg) == [sweep |-> origin, call |-> name, arg |-> arg]

\* delete_endpoint: the delete calls it issues and whether it raises
delete_endpoint(origin, endpoint_name, dry_run, outcome) ==
    [calls |->
        IF dry_run \/ outcome \in {"describe_client_error", "describe_other_error"}
        THEN <<>>
        ELSE IF outcome \in {"delete_client_error", "delete_other_error"}
        THEN <<DeleteCall(origin, "delete_endpoint", endpoint_name)>>
        ELSE <<DeleteCall(origin, "delete_endpoint", endpoint_name),
               DeleteCall(origin, "delete_endpoint_config", ConfigOf(endpoint_name))>>,
     raised |-> outcome \in {"describe_other_error", "delete_other_error",
                             "config_other_error"}]

\* iris_endpoints of list_and_delete_iris_endpoints
IrisEndpoints(listing) == SelectSeq(listing, LAMBDA ep : MatchesConvention(ep.EndpointName))

\* old_models of delete_old_models: CreationTime < now - days and the name matches
OldModels(listing, days) ==
    SelectSeq(listing, LAMBDA model : model.age > days /\ MatchesConvention(model.ModelName))

\* delete_old_models always deletes
ModelSweepDeletesMutant(dry_run) == TRUE

\* delete_old_models deletes unless dry_run
ModelSweepDeletes(dry_run) == ~dry_run

\* list_and_delete_iris_endpoints deletes unless dry_run
EndpointSweepDeletes(dry_run) == ~dry_run

\* outcomes of delete_model: the same three, all caught
DeleteModelOutcomes == {"deleted", "client_error", "other_error"}

\* `if args.endpoint_name:`
Truthy(x) == x # None /\ x # <<>>

CleanupStart(names, alls, olds, dries) ==
    /\ cpc = "single"
    /\ c_endpoint_name \in names
    /\ c_all \in alls
    /\ c_old \in olds
    /\ c_dry \in dries
    /\ c_days \in DayThresholds
    /\ ep_listing = <<>>
    /\ iris_endpoints = <<>>
    /\ ep_idx = 1
    /\ model_listing = <<>>
    /\ old_models = <<>>
    /\ model_idx = 1
    /\ deletes = <<>>
    /\ attempts = <<>>
    /\ c_exit = -1

CleanupAtRest == CleanupStart({None}, {FALSE}, {FALSE}, {FALSE})

\* main lines 173-174
CleanupSingle ==
    /\ cpc = "single"
    /\ IF ~Truthy(c_endpoint_name)
       THEN /\ cpc' = "endpoints"
            /\ UNCHANGED <<deletes, attempts, c_exit>>
       ELSE \E outcome \in DeleteEndpointOutcomes(c_dry) :
            LET r == delete_endpoint("single", c_endpoint_name, c_dry, outcome) IN
            /\ deletes' = deletes \o r.calls
            /\ attempts' = Append(attempts, [sweep |-> "single", name |-> c_endpoint_name])
            /\ IF r.raised
               THEN cpc' = "raised" /\ c_exit' = 1
               ELSE cpc' = "endpoints" /\ UNCHANGED c_exit
    /\ UNCHANGED <<c_endpoint_name, c_all, c_old, c_dry, c_days, ep_listing,
                   iris_endpoints, ep_idx, model_listing, old_models, model_idx>>
    /\ UNCHANGED <<train_vars, deploy_vars, probe_vars>>

\* main lines 177-178, list_and_delete_iris_endpoints lines 50-71, 74-75
ListIrisEndpoints ==
    /\ cpc = "endpoints"
    /\ IF ~c_all
       THEN /\ cpc' = "models"
            /\ UNCHANGED <<ep_listing, iris_endpoints, c_exit>>
       ELSE \E answer \in ListEndpointsAnswers :
            IF answer.kind = "error"
            THEN /\ cpc' = "raised"
                 /\ c_exit' = 1
                 /\ UNCHANGED <<ep_listing, iris_endpoints>>
            ELSE /\ ep_listing' = answer.items
                 /\ iris_endpoints' = IrisEndpoints(answer.items)
                 /\ cpc' = IF iris_endpoints' # <<>> /\ EndpointSweepDeletes(c_dry)
                           THEN "endpoint_loop" ELSE "models"
                 /\ UNCHANGED c_exit
    /\ UNCHANGED <<c_endpoint_name, c_all, c_old, c_dry, c_days, ep_idx,
                   model_listing, old_models, model_idx, deletes, attempts>>
    /\ UNCHANGED <<train_vars, deploy_vars, probe_vars>>

\* list_and_delete_iris_endpoints lines 72-73: one pass of the loop
EndpointSweepStep ==
    /\ cpc = "endpoint_loop"
    /\ \E outcome \in DeleteEndpointOutcomes(FALSE) :
        LET name == iris_endpoints[ep_idx].EndpointName
            r == delete_endpoint("endpoints", name, FALSE, outcome) IN
        /\ deletes' = deletes \o r.calls
        /\ attempts' = Append(attempts, [sweep |-> "endpoints", name |-> name])
        /\ IF r.raised
           THEN cpc' = "raised" /\ c_exit' = 1 /\ UNCHANGED ep_idx
           ELSE /\ ep_idx' = ep_idx + 1
                /\ cpc' = IF ep_idx = Len(iris_endpoints) THEN "models" ELSE "endpoint_loop"
                /\ UNCHANGED c_exit
    /\ UNCHANGED <<c_endpoint_name, c_all, c_old, c_dry, c_days, ep_listing,
                   iris_endpoints, model_listing, old_models, model_idx>>
    /\ UNCHANGED <<train_vars, deploy_vars, probe_vars>>

\* main lines 181-182, delete_old_models lines 79-106
ListOldModels ==
    /\ cpc = "models"
    /\ IF ~c_old
       THEN /\ cpc' = "finish"
            /\ UNCHANGED <<model_listing, old_models, c_exit>>
       ELSE \E answer \in ListModelsAnswers(c_days) :
            IF answer.kind = "error"
            THEN /\ cpc' = "raised"
                 /\ c_exit' = 1
                 /\ UNCHANGED <<model_listing, old_models>>
            ELSE /\ model_listing' = answer.items
                 /\ old_models' = OldModels(answer.items, c_days)
                 /\ cpc' = IF old_models' # <<>> /\ ModelSweepDeletes(c_dry)
                           THEN "model_loop" ELSE "finish"
                 /\ UNCHANGED c_exit
    /\ UNCHANGED <<c_endpoint_name, c_all, c_old, c_dry, c_days, ep_listing,
                   iris_endpoints, ep_idx, model_idx, deletes, attempts>>
    /\ UNCHANGED <<train_vars, deploy_vars, probe_vars>>

\* delete_old_models lines 108-114: one pass of the loop
ModelSweepStep ==
    /\ cpc = "model_loop"
    /\ \E outcome \in DeleteModelOutcomes :
        LET name == old_models[model_idx].ModelName IN
        /\ deletes' = Append(deletes, DeleteCall("models", "delete_model", name))
        /\ attempts' = Append(attempts, [sweep |-> "models", name |-> name, outcome |-> outcome])
    /\ model_idx' = model_idx + 1
    /\ cpc' = IF model_idx = Len(old_models) THEN "finish" ELSE "model_loop"
    /\ UNCHANGED <<c_endpoint_name, c_all, c_old, c_dry, c_days, ep_listing,
                   iris_endpoints, ep_idx, model_listing, old_models, c_exit>>
    /\ UNCHANGED <<train_vars, deploy_vars, probe_vars>>

\* main lines 184-192
CleanupFinish ==
    /\ cpc = "finish"
    /\ cpc' = "done"
    /\ c_exit' = 0
    /\ UNCHANGED <<c_endpoint_name, c_all, c_old, c_dry, c_days, ep_listing,
                   iris_endpoints, ep_idx, model_listing, old_models, model_idx,
                   deletes, attempts>>
    /\ UNCHANGED <<train_vars, deploy_vars, probe_vars>>

\* ----------------------------------------------------------- specifications
\* Each script is its own process; the other scripts' variables stay at rest.
TrainInit == TrainStart(BOOLEAN) /\ DeployStart({FALSE}, {FALSE}) /\ ProbeStart /\ CleanupAtRest

TrainNext ==
    \/ CreateTrainingJob
    \/ MainNoWait
    \/ Poll
    \/ MainFailed
    \/ TryDirect
    \/ DownloadArchive
    \/ ExtractMetrics
    \/ MainSave

SpecTrain == TrainInit /\ [][TrainNext]_vars

DeployNext ==
    \/ CheckEndpointExists
    \/ CreateModel
    \/ GuardAbort
    \/ DeployNewEndpoint
    \/ UpdateExistingEndpoint
    \/ UpdatePoll
    \/ SaveEndpointInfo

DeployInit == TrainStart({FALSE}) /\ DeployStart(BOOLEAN, BOOLEAN) /\ ProbeStart /\ CleanupAtRest

SpecDeploy == DeployInit /\ [][DeployNext]_vars

ProbeNext ==
    \/ ProbeSingle
    \/ ProbeBatch
    \/ ProbeNegative
    \/ ProbeSummary

ProbeInit == TrainStart({FALSE}) /\ DeployStart({FALSE}, {FALSE}) /\ ProbeStart /\ CleanupAtRest

SpecProbe == ProbeInit /\ [][ProbeNext]_vars

CleanupNext ==
    \/ CleanupSingle
    \/ ListIrisEndpoints
    \/ EndpointSweepStep
    \/ ListOldModels
    \/ ModelSweepStep
    \/ CleanupFinish

CleanupInit ==
    /\ TrainStart({FALSE}) /\ DeployStart({FALSE}, {FALSE}) /\ ProbeStart
    /\ CleanupStart({None, NameProd}, BOOLEAN, BOOLEAN, BOOLEAN)

SpecCleanup == CleanupInit /\ [][CleanupNext]_vars

\* ---------------------------------------------------------------- properties
Last(seq) == seq[Len(seq)]

\* wait_for_training has returned to main
WaitReturned == args_wait /\ pc \notin {"create", "polling", "raised"}

\* get_metrics_from_s3 has returned to main and main has not yet gone on
LocatorReturned == pc = "located"

\* C1: the wait loop stops at the first poll whose status is Completed, Failed
\* or Stopped and polls again after every other status: it has left the loop
\* exactly when some poll returned one of the three, that poll is the last
\* one made, and after any other status the script is still in the loop.
C1_WaitStopsAtFirstTerminal ==
    /\ WaitReturned <=>
         (\E i \in 1..Len(polls) : polls[i] \in {"Completed", "Failed", "Stopped"})
    /\ \A i \in 1..Len(polls) :
         polls[i] \in {"Completed", "Failed", "Stopped"} => i = Len(polls)
    /\ (polls # <<>>
        /\ Last(polls) \in {"Pending", "InProgress", "Stopping"}) => pc = "polling"

C1_Witness ==
    /\ Len(polls) = 3
    /\ polls[1] = "Pending" /\ polls[2] = "InProgress" /\ polls[3] = "Stopped"
    /\ pc = "waited"

\* C2: a status query that raises is never propagated: after it the script is
\* still in the loop, a run of query errors alone never returns, and a run of
\* query errors followed by a terminal status returns the result for that
\* status.
C2_QueryErrorsRetried ==
    /\ pc # "raised"
    /\ (polls # <<>> /\ Last(polls) = "QueryError") => pc = "polling"
    /\ (\A i \in 1..Len(polls) : polls[i] = "QueryError") => ~WaitReturned
    /\ WaitReturned =>
         <<success, model_artifacts>> =
            IF Last(polls) = "Completed" THEN <<TRUE, ArtifactsOf(job_name)>>
            ELSE <<FALSE, None>>

C2_Witness ==
    /\ Len(polls) = 3
    /\ polls[1] = "QueryError" /\ polls[2] = "QueryError" /\ polls[3] = "Completed"
    /\ pc = "waited" /\ success /\ model_artifacts = ArtifactsOf(job_name)

\* C3: the record written to training_job_info.json has non-null metrics only
\* if a poll observed Completed; when Failed or Stopped was observed its
\* metrics and model_artifacts are null and its status tag is 'failed'.
C3_MetricsOnlyWhenCompleted ==
    job_info_file # <<>> =>
        LET r == job_info_file[1] IN
        /\ r.metrics # None => (\E i \in 1..Len(polls) : polls[i] = "Completed")
        /\ (\E i \in 1..Len(polls) : polls[i] \in {"Failed", "Stopped"}) =>
              /\ r.metrics = None
              /\ r.model_artifacts = None
              /\ "status" \in DOMAIN r
              /\ r.status = "failed"

C3_Witness ==
    /\ job_info_file # <<>>
    /\ polls # <<>>
    /\ Last(polls) = "Stopped"
    /\ job_info_file[1].metrics = None
    /\ "status" \in DOMAIN job_info_file[1]
    /\ job_info_file[1].status = "failed"

\* C4: the two tiers are tried in order and the first success wins: when the
\* direct lookup yields the document that document is returned and no archive
\* download is issued; the download is issued only after the direct lookup
\* reported not-found; when only the archive holds the document, the extracted
\* document is returned.
C4_TiersInOrder ==
    /\ direct_outcome.kind = "ok" =>
         /\ \A i \in 1..Len(s3calls) : s3calls[i] # "download_file"
         /\ LocatorReturned => metrics = direct_outcome.doc
    /\ (\E i \in 1..Len(s3calls) : s3calls[i] = "download_file") =>
         /\ direct_outcome.kind = "NoSuchKey"
         /\ s3calls = <<"get_object", "download_file">>
    /\ (LocatorReturned /\ direct_outcome.kind = "NoSuchKey"
        /\ archive_outcome.kind = "member") => metrics = archive_outcome.doc

C4_Witness ==
    /\ LocatorReturned
    /\ direct_outcome.kind = "NoSuchKey"
    /\ archive_outcome.kind = "member"
    /\ metrics = [accuracy |-> 93, f1_score |-> 93]

\* a metrics document was obtained from one of the two tiers
DocumentObtained == direct_outcome.kind = "ok" \/ archive_outcome.kind = "member"

\* C5: get_metrics_from_s3 never raises: whatever the direct lookup, the
\* download, the opening of the archive and the extraction do, it returns, and
\* when no document was obtained the value returned is a sentinel with
\* accuracy 0.0 and a diagnostic field (note or error).
C5_SentinelNeverRaises ==
    /\ pc \in {"create", "nowait", "polling", "waited", "download", "extract",
               "located", "exited"}
    /\ (direct_outcome.kind \notin {"not_asked", "ok", "NoSuchKey"}) =>
          pc \in {"located", "exited"}
    /\ (archive_outcome.kind \notin {"not_asked", "downloaded"}) =>
          pc \in {"located", "exited"}
    /\ (LocatorReturned /\ ~DocumentObtained) =>
          /\ metrics # None
          /\ "accuracy" \in DOMAIN metrics
          /\ metrics.accuracy = 0
          /\ DOMAIN metrics \cap {"note", "error"} # {}

C5_Witness ==
    /\ LocatorReturned
    /\ direct_outcome.kind = "NoSuchKey"
    /\ archive_outcome.kind = "KeyError"
    /\ metrics = SentinelNotFound

\* C6: whenever get_metrics_from_s3 created the temporary archive file, the
\* file is gone by the time the function has returned.
C6_TempFileRemoved ==
    (pc \in {"located", "exited"} /\ tmp_created) => ~tmp_exists

\* C7: the deployer follows its decision table on the result of the existence
\* check: not existing, the create path; existing and update allowed, the
\* update path, whose first platform call creates an endpoint configuration
\* under the name generated in this run, the name update_endpoint then uses;
\* existing and update not allowed, exit status 1 with no mutating platform
\* call issued, no model registered and no endpoint_info.json written.
C7_DecisionTable ==
    /\ d_path # "none" =>
         d_path = IF ~d_exists THEN "create"
                  ELSE IF d_update THEN "update" ELSE "abort"
    /\ (dpc \in {"update_poll", "save"} \/ (dpc = "exited" /\ d_model # None)) =>
         d_path # "none"
    /\ d_path = "create" =>
         /\ mutations # <<>>
         /\ mutations[1] = Call("create_model", d_model)
         /\ d_config = None
    /\ d_path = "update" =>
         /\ \E ts \in Timestamps : d_config = ConfigName(ts)
         /\ mutations # <<>>
         /\ mutations[1].call = "create_endpoint_config"
         /\ mutations[1].arg = d_config
         /\ \A i \in 1..Len(mutations) :
              mutations[i].call = "update_endpoint" => mutations[i].config = d_config
    /\ d_path = "abort" =>
         /\ dpc = "exited"
         /\ d_exit = 1
         /\ mutations = <<>>
         /\ platform_models = {}
         /\ endpoint_info_file = <<>>

C7_Witness ==
    /\ d_path = "abort"
    /\ ep_present /\ d_exists /\ ~d_update
    /\ d_model # None
    /\ d_exit = 1

\* C8: the existence check reports 'does not exist' only when the endpoint is
\* absent; a describe error other than not-found propagates out of main, so
\* the create path is never taken because the existence query failed.
C8_ExistenceErrorsPropagate ==
    /\ (dpc \notin {"check", "exited"} /\ ~d_exists) => ~ep_present
    /\ describe_answer \in {"ClientError", "ConnectionError"} =>
         (dpc = "exited" /\ d_path = "none" /\ d_exit = 1)
    /\ d_path = "create" => describe_answer = "NotFound"

\* a response that makes sample i pass
GoodSingle(resp, i) ==
    resp.kind = "result" /\ resp.probabilities /\ resp.prediction = Expected[i]

\* C9: the probe exits non-zero exactly when single_failed + batch_failed > 0,
\* whatever the malformed payloads met.
C9_ExitIffComparisonFailed ==
    ppc = "exited" =>
        /\ p_exit \in {0, 1}
        /\ p_exit # 0 <=> single_tally[2] + batch_tally[2] > 0

C9_Witness ==
    /\ ppc = "exited"
    /\ single_tally[1] = 3 /\ single_tally[2] = 0
    /\ batch_tally = <<3, 0>>
    /\ \A i \in DOMAIN InvalidPayloads : neg_resps[i] = "accepted"
    /\ p_exit = 0

\* C10: the single-item check sends all three samples whatever the earlier
\* ones met, each sample adds one to passed or to failed by its own response
\* alone, so passed + failed = 3, and replacing one passing response by a
\* corrupted one moves exactly one from passed to failed.
C10_SingleSamplesIsolated ==
    ppc # "single" =>
        /\ single_tally[3] = 3
        /\ single_tally[1] + single_tally[2] = 3
        /\ single_tally[1] =
             Cardinality({i \in 1..3 : GoodSingle(single_resps[i], i)})
        /\ ppc = "batch" =>
             \A i \in 1..3 : \A bad \in SingleResponses :
                (GoodSingle(single_resps[i], i) /\ ~GoodSingle(bad, i)) =>
                    TestSinglePrediction([single_resps EXCEPT ![i] = bad])
                      = <<single_tally[1] - 1, single_tally[2] + 1, 3>>

C10_Witness ==
    /\ ppc = "batch"
    /\ single_resps[1].kind = "error"
    /\ GoodSingle(single_resps[2], 2)
    /\ GoodSingle(single_resps[3], 3)
    /\ single_tally = <<2, 1, 3>>

\* C11: in the batch check one request-level error gives passed = 0 and
\* failed = 3, all three positions at once, while in the single-item check an
\* error on one request fails that sample only.
C11_BatchErrorFailsAll ==
    /\ (ppc \notin {"single", "batch"} /\ batch_resp.kind = "error") =>
          batch_tally = <<0, 3>>
    /\ (ppc # "single"
        /\ Cardinality({i \in 1..3 : single_resps[i].kind = "error"}) = 1
        /\ \A i \in 1..3 : single_resps[i].kind = "error"
                             \/ GoodSingle(single_resps[i], i)) =>
          single_tally = <<2, 1, 3>>

C11_Witness ==
    /\ ppc = "negative"
    /\ batch_resp.kind = "error"
    /\ batch_tally = <<0, 3>>
    /\ single_tally = <<2, 1, 3>>
    /\ single_resps[2].kind = "error"

\* C18: the batch check accounts for every sample: whatever the endpoint
\* answers, passed + failed = 3, and a predictions list shorter than the three
\* samples sent makes the probe exit non-zero.
C18_BatchAccountsForEverySample ==
    /\ ppc \notin {"single", "batch"} => batch_tally[1] + batch_tally[2] = 3
    /\ (ppc = "exited" /\ batch_resp.kind = "result"
        /\ Len(batch_resp.predictions) < 3) => p_exit # 0

\* C15: with --wait, once a poll observed Completed the script ends by writing
\* a record that carries the job name, the artifact location and non-null
\* metrics and exits 0 whatever the metrics lookup met; it exits 1 only when
\* Failed or Stopped was observed.
C15_CompletedAlwaysRecorded ==
    /\ (args_wait /\ polls # <<>> /\ Last(polls) = "Completed") =>
          /\ pc \in {"waited", "download", "extract", "located", "exited"}
          /\ pc # "exited" => ENABLED TrainNext
          /\ pc = "exited" =>
                /\ exit_code = 0
                /\ job_info_file =
                     <<[job_name |-> job_name,
                        model_artifacts |-> ArtifactsOf(job_name),
                        metrics |-> metrics]>>
                /\ metrics # None
                /\ "accuracy" \in DOMAIN metrics
    /\ exit_code = 1 =>
          (polls # <<>> /\ Last(polls) \in {"Failed", "Stopped"})
    /\ (args_wait /\ pc = "exited") => exit_code \in {0, 1}

C15_Witness ==
    /\ pc = "exited"
    /\ args_wait
    /\ direct_outcome = [kind |-> "ok", doc |-> None]
    /\ exit_code = 0
    /\ job_info_file[1].metrics = SentinelNone

\* C16: endpoint_info.json is written only on success: on the update path only
\* after a poll returned InService; the poll loop goes on after every status
\* other than InService and Failed; a poll returning Failed raises an error
\* that carries the platform's failure reason, and no record is written.
C16_RecordOnlyOnSuccess ==
    /\ endpoint_info_file # <<>> =>
          /\ d_exit = 0
          /\ d_path \in {"create", "update"}
          /\ d_path = "update" =>
                (update_polls # <<>> /\ Last(update_polls) = "InService")
          /\ d_path = "create" =>
                (\E i \in 1..Len(mutations) : mutations[i].call = "create_endpoint")
    /\ \A i \in 1..Len(update_polls) :
          update_polls[i] \in {"InService", "Failed"} => i = Len(update_polls)
    /\ (update_polls # <<>>
        /\ Last(update_polls) \in {"Creating", "Updating", "OutOfService"}) =>
          dpc = "update_poll"
    /\ (update_polls # <<>> /\ Last(update_polls) = "Failed") =>
          /\ dpc = "exited"
          /\ d_exit = 1
          /\ endpoint_info_file = <<>>
          /\ d_error # None
          /\ d_error.reason \in {"CapacityError", "Unknown"}

C16_Witness ==
    /\ Len(update_polls) = 3
    /\ update_polls[1] = "Updating"
    /\ update_polls[2] = "OutOfService"
    /\ update_polls[3] = "Failed"
    /\ d_error = [text |-> "Endpoint update failed", reason |-> "CapacityError"]
    /\ endpoint_info_file = <<>>
    /\ d_exit = 1

\* C17: on every deployment path the model is registered with the platform
\* before anything refers to it: every create_endpoint_config call is preceded
\* by the create_model call for the model its production variant names.
C17_ModelRegisteredBeforeUse ==
    \A i \in 1..Len(mutations) :
        mutations[i].call = "create_endpoint_config" =>
            \E j \in 1..(i - 1) :
                mutations[j].call = "create_model" /\ mutations[j].arg = d_model


\* C12: in dry-run mode cleanup.py issues no delete call (delete_endpoint,
\* delete_endpoint_config, delete_model), whatever the listings hold and
\* whichever of --endpoint-name, --delete-all-endpoints, --delete-old-models
\* are given.
C12_DryRunDeletesNothing == c_dry => deletes = <<>>

\* a dry run that went through the single delete and both sweeps, with two
\* endpoint candidates and two model candidates
C12_Witness ==
    /\ c_dry /\ cpc = "done"
    /\ Truthy(c_endpoint_name) /\ c_all /\ c_old
    /\ attempts # <<>>
    /\ Len(iris_endpoints) = 2
    /\ Len(old_models) = 2
    /\ deletes = <<>>

\* the names of the pool that contain 'iris' in some casing
ConventionNames == {NameIrisEp, NameMyIris}

C14_SweepSurvivesFailures ==
    (cpc \in {"done", "raised"} /\ ~c_dry) =>
        /\ \A k \in 1..Len(iris_endpoints) :
              \E i \in 1..Len(attempts) :
                  /\ attempts[i].sweep = "endpoints"
                  /\ attempts[i].name = iris_endpoints[k].EndpointName
        /\ \A k \in 1..Len(old_models) :
              \E i \in 1..Len(attempts) :
                  /\ attempts[i].sweep = "models"
                  /\ attempts[i].name = old_models[k].ModelName

=============================================================================
